---- MODULE Spec2Model ----
(***************************************************************************)
(* gif-maker: the convert command's orchestrator (RunE, convertVideo), the  *)
(* ffmpeg subprocess behind its two pipes, the status-line scanner         *)
(* (parseFFmpegOutput), the bounded progress channel, the aggregator and   *)
(* renderer task (displayProgressBar) and the --no-progress drain          *)
(* (trackProgress), modelled from src/cmd/info.go (the convert command     *)
(* that starts at line 1036), src/cmd/util.go and src/cmd/root.go; and the *)
(* FFmpeg Manager of src/internal/ffmpeg/ffmpeg.go.                        *)
(*                                                                         *)
(* Units.  Times are integers in centiseconds, processing rates in         *)
(* hundredths, percentages in whole percent.  A status line is a record    *)
(* with one field per extractor of parseFFmpegOutput; -1 (or "" for a      *)
(* unit) means the extractor does not match the line.  A HH:MM:SS.cc text  *)
(* is the tuple <<HH, MM, SS, cc>>.  A stderr character is identified by   *)
(* its offset in the subprocess's stderr output, so a text is an interval  *)
(* of offsets.                                                             *)
(***************************************************************************)
EXTENDS Integers, Sequences, FiniteSets, TLC

\* ---------------------------------------------------------------- bounds
MaxLines == 11       \* most status lines the subprocess writes to stdout
MaxErrChunks == 2    \* most chunks the subprocess writes to stderr
ChunkLen == 300      \* characters in one stderr chunk
OutPipeCap == 2      \* status lines the stdout pipe buffers
ErrPipeCap == 1      \* chunks the stderr pipe buffers

\* ------------------------------------------------------ program constants
ChanCap == 10        \* make(chan ProgressUpdate, 10)
TailLimit == 500     \* errMsg[len(errMsg)-500:]
InitialRate == 100   \* ProcessingRate: 1.0 in runProgressTracking
FrameWindow == 10    \* if len(frameRates) > 10
WarmupFrames == 30   \* progress.FramesProcessed > 30
FrameFactor == 10    \* progress.FramesProcessed * 10
ExitOK == 0          \* rootCmd.Execute() returned nil
ExitError == 1       \* os.Exit(1)
ExitPanic == ExitError + 1   \* the Go runtime's exit status after a panic (2)

VARIABLES
    NoProgress,      \* opts.NoProgress
    script,          \* which status stream the subprocess produces
    nOut, nErr,      \* how many lines / stderr chunks it writes before exiting
    mainPc,          \* position of the main goroutine (RunE, convertVideo, Execute)
    failure,         \* which failure convertVideo met ("none" if none)
    ret,             \* what convertVideo returned: "none", "ok", "err"
    errTail,         \* the stderr text in the returned error: [lo, hi] offsets
    exitStatus,      \* process exit status, -1 while running
    crashed,         \* a goroutine panicked: the whole process is gone
    finalProgress,   \* "nil" or "progress" (the pointer convertVideo holds)
    summary,         \* what the summary printed so far
    procState,       \* "notstarted", "running", "exited"
    procExit,        \* the subprocess's exit code, -1 before it exits
    outWritten,      \* lines written to stdout
    errWritten,      \* chunks written to stderr
    pipesClosed,     \* cmd.Wait closed the parent's ends of both pipes
    scPc,            \* parseFFmpegOutput: "notstarted", "read", "send", "done"
    scIdx,           \* lines parseFFmpegOutput has taken off stdout
    update,          \* parseFFmpegOutput's  var update ProgressUpdate
    progressChan,    \* the buffered channel's contents
    chanClosed,      \* close(progressChan) has run
    dpPc,            \* displayProgressBar: "notstarted", "init", "loop", "done",
                     \* "panicked"
    progress,        \* the ProgressData both goroutines share
    disp,            \* displayProgressBar's locals
    drPc,            \* trackProgress: "notstarted", "read", "done"
    errRead,         \* chunks trackProgress has taken off stderr
    errOutput,       \* characters captured in errOutput (a prefix of stderr)
    produced,        \* history: the updates handed to the channel send, in order
    delivered,       \* history: the updates the aggregator received, in order
    lastDropped,     \* history: the last hand-off found the channel full
    probed,          \* the -version probe of checkFFmpegInstallation was started
    opts,            \* the ConvertOptions the flags (or the prompts) left
    ffmpegArgs,      \* convertVideo's ffmpegArgs, <<>> until they are built
    termWidth,       \* displayProgressBar's termWidth
    frame,           \* what displayProgressBar drew last
    env,             \* the input file, the platform, the embedded binaries, the PATH
    manager,         \* the Manager's fields
    tempDirs,        \* the temporary directories MkdirTemp made that still exist
    binaries,        \* those of them that hold the extracted binary
    dirCount,        \* how many directories MkdirTemp made so far
    lastCall,        \* history: the last Manager call and what it returned
    timeText,        \* the text handed to timeToSeconds
    timeSeconds,     \* what timeToSeconds returned for it, -1 before the call
    lineLens,        \* the byte lengths of the lines of a stdout stream, in order
    linesScanned,    \* how many of them scanner.Scan() returned
    scanErr          \* why scanner.Scan() returned false: "none", "EOF", "ErrTooLong"

vars == <<NoProgress, script, nOut, nErr, mainPc, failure, ret, errTail,
          exitStatus, crashed, finalProgress, summary, procState, procExit,
          outWritten, errWritten, pipesClosed, scPc, scIdx, update,
          progressChan, chanClosed, dpPc, progress, disp, drPc, errRead,
          errOutput, produced, delivered, lastDropped, probed, opts,
          ffmpegArgs, termWidth, frame, env, manager, tempDirs,
          binaries, dirCount, lastCall, timeText, timeSeconds, lineLens,
          linesScanned, scanErr>>

\* ------------------------------------------------------------ status lines
NoLine ==
    [Duration |-> <<>>, duration |-> -1, time |-> <<>>, out_time |-> <<>>,
     out_time_ms |-> -1, pct |-> -1, speed |-> -1, size |-> -1, sizeUnit |-> "",
     bitrate |-> -1, bitrateUnit |-> "", frame |-> -1, w |-> -1, h |-> -1,
     order |-> <<>>]

\* i seconds as HH:MM:SS.cc
Clock(i) == <<0, i \div 60, i % 60, 0>>

Scripts == {"stats", "progress"}

\* The header line of a stream: the total duration (5 s) and the dimensions.
HeaderLine == [NoLine EXCEPT !.Duration = <<0, 0, 5, 0>>, !.w = 320, !.h = 240]

\* The classic stats line of second i.
StatsLine(i) ==
    [NoLine EXCEPT !.frame = i, !.time = Clock(i), !.order = <<"time">>,
                   !.speed = IF i % 2 = 0 THEN 200 ELSE 150,
                   !.size = i, !.sizeUnit = "kB",
                   !.bitrate = 100, !.bitrateUnit = "kbits"]

\* The i-th line of the "mixed" stream: the header and stats lines, of which
\*   line 4 is line 3 once more,
\*   line 5 also carries Duration: 00:00:09.00 and duration=7.00,
\*   line 6 carries time=00:00:03.00 and then out_time_ms=4000000,
\*   line 7 carries a frame count and nothing else,
\*   line 8 carries out_time=00:00:07.00 and then time=00:00:08.00.
MixedLine(i) ==
    CASE i = 1 -> HeaderLine
      [] i = 4 -> StatsLine(3)
      [] i = 5 -> [StatsLine(5) EXCEPT !.Duration = <<0, 0, 9, 0>>, !.duration = 700]
      [] i = 6 -> [StatsLine(6) EXCEPT !.time = Clock(3), !.out_time_ms = 4000000,
                                       !.order = <<"time", "out_time_ms">>]
      [] i = 7 -> [NoLine EXCEPT !.frame = 7]
      [] i = 8 -> [StatsLine(8) EXCEPT !.out_time = Clock(7),
                                       !.order = <<"out_time", "time">>]
      [] OTHER -> StatsLine(i)

\* The i-th line of a status stream.
\*  "stats":    a header with the total duration (5 s) and the dimensions, then
\*              one classic stats line per second of output.
\*  "progress": the -progress key=value form without a duration, ten frames a
\*              line; every third line matches no extractor.
\*  "mixed":    MixedLine
\* A line's order lists the position forms it carries (time, out_time,
\* out_time_ms) from left to right.
Line(s, i) ==
    IF s = "stats"
    THEN IF i = 1 THEN HeaderLine ELSE StatsLine(i)
    ELSE IF s = "progress"
    THEN IF i % 3 = 0
         THEN NoLine
         ELSE [NoLine EXCEPT !.frame = 10 * i, !.out_time_ms = i * 1000000,
                             !.order = <<"out_time_ms">>,
                             !.speed = 100 + 50 * (i % 2)]
    ELSE MixedLine(i)

\* ------------------------------------------------- parseFFmpegOutput (pure)
\* timeToSeconds, in centiseconds: h*3600 + m*60 + s + ms/10^len(ms), the
\* fraction having the two digits the scanner's patterns require.
timeToSeconds(t) == (t[1] * 3600 + t[2] * 60 + t[3]) * 100 + t[4]

ZeroUpdate ==
    [CurrentTime |-> 0, TotalDuration |-> 0, ProcessingRate |-> 0,
     CurrentSize |-> 0, SizeUnit |-> "", Bitrate |-> 0, BitrateUnit |-> "",
     FramesProcessed |-> 0, Width |-> 0, Height |-> 0]

\* ScanDuration without the test that no duration is held yet.
ScanDuration_Overwrites(u, l) ==
    IF l.Duration # <<>>
    THEN [u EXCEPT !.TotalDuration = timeToSeconds(l.Duration)]
    ELSE IF l.duration > 0
         THEN [u EXCEPT !.TotalDuration = l.duration]
    ELSE u

\* "Get the duration if we don't have it yet"
ScanDuration(u, l) ==
    IF u.TotalDuration # 0 THEN u
    ELSE IF l.Duration # <<>>
         THEN [u EXCEPT !.TotalDuration = timeToSeconds(l.Duration)]
    ELSE IF l.duration > 0
         THEN [u EXCEPT !.TotalDuration = l.duration]
    ELSE u

DurationChanged(u, l) ==
    /\ u.TotalDuration = 0
    /\ \/ l.Duration # <<>>
       \/ l.duration > 0

\* timeRegex.FindStringSubmatch(line): the pattern time=(HH:MM:SS.cc) is not
\* anchored, so it matches inside out_time=HH:MM:SS.cc as well, and the match
\* returned is the leftmost one.  <<>> if the line carries neither form.
IsClockForm(f) == f \in {"time", "out_time"}

TimeMatch(l) ==
    LET forms == SelectSeq(l.order, IsClockForm)
    IN IF forms = <<>> THEN <<>>
       ELSE IF Head(forms) = "time" THEN l.time ELSE l.out_time

\* "Track current time": time=, else out_time=, else out_time_ms= (microseconds)
ScanPosition(u, l) ==
    IF TimeMatch(l) # <<>>
    THEN IF timeToSeconds(TimeMatch(l)) > 0
         THEN [u EXCEPT !.CurrentTime = timeToSeconds(TimeMatch(l))] ELSE u
    ELSE IF l.out_time # <<>>
    THEN IF timeToSeconds(l.out_time) > 0
         THEN [u EXCEPT !.CurrentTime = timeToSeconds(l.out_time)] ELSE u
    ELSE IF l.out_time_ms > 0
    THEN [u EXCEPT !.CurrentTime = l.out_time_ms \div 10000]
    ELSE u

PositionChanged(l) ==
    IF TimeMatch(l) # <<>> THEN timeToSeconds(TimeMatch(l)) > 0
    ELSE IF l.out_time # <<>> THEN timeToSeconds(l.out_time) > 0
    ELSE l.out_time_ms > 0

\* "Check for percentage progress": position back-computed from the total
ScanPercent(u, l) ==
    IF l.pct > 0 /\ u.TotalDuration > 0
    THEN [u EXCEPT !.CurrentTime = (l.pct * u.TotalDuration) \div 100]
    ELSE u

\* speed, size, bitrate, frame and dimensions: each stored only when > 0
ScanRest(u, l) ==
    [u EXCEPT
       !.ProcessingRate = IF l.speed > 0 THEN l.speed ELSE @,
       !.CurrentSize = IF l.size > 0 THEN l.size ELSE @,
       !.SizeUnit = IF l.size > 0 THEN l.sizeUnit ELSE @,
       !.Bitrate = IF l.bitrate > 0 THEN l.bitrate ELSE @,
       !.BitrateUnit = IF l.bitrate > 0 THEN l.bitrateUnit ELSE @,
       !.FramesProcessed = IF l.frame > 0 THEN l.frame ELSE @,
       !.Width = IF l.w > 0 /\ l.h > 0 THEN l.w ELSE @,
       !.Height = IF l.w > 0 /\ l.h > 0 THEN l.h ELSE @]

\* ScanLine with the rate, size, bitrate, frame and dimension extractors left out.
ScanLine_PositionOnly(u, l) == ScanPercent(ScanPosition(ScanDuration(u, l), l), l)

\* ScanLine starting from an empty update for every line.
ScanLine_NotCumulative(u, l) ==
    ScanRest(ScanPercent(ScanPosition(ScanDuration(ZeroUpdate, l), l), l), l)

\* The scanner's update after one more line.
ScanLine(u, l) == ScanRest(ScanPercent(ScanPosition(ScanDuration(u, l), l), l), l)

\* The loop body's  changed  flag for line l read in state u.
Changed(u, l) ==
    \/ DurationChanged(u, l)
    \/ PositionChanged(l)
    \/ l.pct > 0 /\ ScanDuration(u, l).TotalDuration > 0
    \/ l.speed > 0
    \/ l.size > 0
    \/ l.bitrate > 0
    \/ l.frame > 0
    \/ l.w > 0 /\ l.h > 0

\* ------------------------------------------- displayProgressBar: one receive
RECURSIVE Gcd(_, _)
Gcd(a, b) == IF b = 0 THEN a ELSE Gcd(b, a % b)

\* speedSum / float64(speedCount), as the reduced fraction <<num, den>>
Mean(sum, count) == <<sum \div Gcd(sum, count), count \div Gcd(sum, count)>>

InitProgress ==
    [CurrentTime |-> 0, TotalDuration |-> 0, ProcessingRate |-> InitialRate,
     CurrentSize |-> 0, SizeUnit |-> "", Bitrate |-> 0, BitrateUnit |-> "",
     FramesProcessed |-> 0, Width |-> 0, Height |-> 0,
     AvgProcessRate |-> <<0, 1>>, Frames |-> 0]

InitDisp ==
    [speedSum |-> 0, speedCount |-> 0, lastFrame |-> 0, lastFrameCount |-> 0,
     firstFrameCount |-> 0, estimatedTotalFrames |-> 0, frameRates |-> <<>>]

\* "Update the progress struct": the seven unconditional stores, then frames
\* and dimensions when positive, the running mean and the final frame count.
ApplyProgress(p, d, u) ==
    LET sum == d.speedSum + u.ProcessingRate
        cnt == d.speedCount + 1
        lf  == IF u.FramesProcessed > 0 THEN u.FramesProcessed ELSE d.lastFrame
    IN [p EXCEPT
          !.CurrentTime = u.CurrentTime,
          !.TotalDuration = u.TotalDuration,
          !.ProcessingRate = u.ProcessingRate,
          !.CurrentSize = u.CurrentSize,
          !.SizeUnit = u.SizeUnit,
          !.Bitrate = u.Bitrate,
          !.BitrateUnit = u.BitrateUnit,
          !.FramesProcessed = IF u.FramesProcessed > 0 THEN u.FramesProcessed ELSE @,
          !.Width = IF u.Width > 0 THEN u.Width ELSE @,
          !.Height = IF u.Height > 0 THEN u.Height ELSE @,
          !.AvgProcessRate = IF u.ProcessingRate > 0 THEN Mean(sum, cnt) ELSE @,
          !.Frames = lf]

\* PushRate without the eviction.
PushRate_NoEviction(w, fps) == Append(w, fps)

\* One sample appended to the frame-rate window, the oldest evicted past 10.
\* The wall-clock time between two frame observations is one time unit.
PushRate(w, fps) ==
    IF Len(w) + 1 > FrameWindow THEN Tail(Append(w, fps)) ELSE Append(w, fps)

\* The locals of displayProgressBar after the same receive; p is the progress
\* struct before it.
ApplyDisp(p, d, u) ==
    LET fp == IF u.FramesProcessed > 0 THEN u.FramesProcessed ELSE p.FramesProcessed
    IN [d EXCEPT
          !.firstFrameCount =
              IF u.FramesProcessed > 0 /\ @ = 0 THEN u.FramesProcessed ELSE @,
          !.lastFrame = IF u.FramesProcessed > 0 THEN u.FramesProcessed ELSE @,
          !.estimatedTotalFrames =
              IF u.Width > 0 /\ @ = 0 /\ fp > WarmupFrames
              THEN fp * FrameFactor ELSE @,
          !.speedSum = IF u.ProcessingRate > 0 THEN @ + u.ProcessingRate ELSE @,
          !.speedCount = IF u.ProcessingRate > 0 THEN @ + 1 ELSE @,
          !.frameRates = IF fp > d.lastFrameCount
                         THEN PushRate(@, fp - d.lastFrameCount) ELSE @,
          !.lastFrameCount = IF fp > @ THEN fp ELSE @]

\* ------------------------------------------- the configuration (ConvertOptions)
\* A text is the sequence of its characters.
Digits == {"0", "1", "2", "3", "4", "5", "6", "7", "8", "9"}

\* strings.Split(t, sep) for a one-character separator
RECURSIVE Split(_, _)
Split(t, sep) ==
    IF \A i \in 1..Len(t) : t[i] # sep THEN <<t>>
    ELSE LET i == CHOOSE j \in 1..Len(t) :
                     t[j] = sep /\ \A k \in 1..(j - 1) : t[k] # sep
         IN <<SubSeq(t, 1, i - 1)>> \o Split(SubSeq(t, i + 1, Len(t)), sep)

\* fmt.Sscanf(t, "%d", new(int)) returns no error: t starts with a digit
\* (what follows the number is not looked at).
ScansInt(t) == t # <<>> /\ t[1] \in Digits

\* ValidateTimeFormat of util.go
ValidateTimeFormat(t) ==
    IF t = <<>> THEN TRUE
    ELSE LET parts == Split(t, ":")
         IN /\ Len(parts) = 3
            /\ \A i \in 1..3 :
                  IF i = 3 /\ \E k \in 1..Len(parts[i]) : parts[i][k] = "."
                  THEN LET secParts == Split(parts[i], ".")
                       IN /\ Len(secParts) = 2
                          /\ ScansInt(secParts[1])
                          /\ ScansInt(secParts[2])
                  ELSE ScansInt(parts[i])

\* The --start and --duration texts tried: none, 0:0:5, 0:1:30.5, 90, 1:x:3.
TimeTexts ==
    {<<>>,
     <<"0", ":", "0", ":", "5">>,
     <<"0", ":", "1", ":", "3", "0", ".", "5">>,
     <<"9", "0">>,
     <<"1", ":", "x", ":", "3">>}

Widths == {0, 320}       \* --width: 0 keeps the input's width
Qualities == {50, 90}    \* --quality

DefaultOpts ==
    [FPS |-> 10, Start |-> <<>>, Duration |-> <<>>, Width |-> 0, Quality |-> 90]

\* One argument of the subprocess: a literal s, a time text t, or the filter
\* string, of which n is the fps and w the scale width (0: no scale stage).
Arg(s) == [s |-> s, t |-> <<>>, n |-> 0, w |-> 0]
TimeArg(t) == [s |-> "", t |-> t, n |-> 0, w |-> 0]
FilterArg(o) ==
    [s |-> "fps,scale,split,palettegen,paletteuse", t |-> <<>>, n |-> o.FPS,
     w |-> IF o.Width > 0 THEN o.Width ELSE 0]

\* ffmpegArgs as convertVideo builds them: -i and the input, the global
\* options put in front of them, then -ss, -t, the filter and the output.
BuildArgs(o) ==
    LET input == <<Arg("-i"), Arg("opts.Input")>>
        global == <<Arg("-y"), Arg("-loglevel"), Arg("info"), Arg("-threads"),
                    Arg("GetOptimalThreads()"), Arg("-progress"), Arg("pipe:1"),
                    Arg("-stats_period"), Arg("0.1")>>
        ss == IF o.Start # <<>> THEN <<Arg("-ss"), TimeArg(o.Start)>> ELSE <<>>
        t  == IF o.Duration # <<>> THEN <<Arg("-t"), TimeArg(o.Duration)>>
              ELSE <<>>
    IN global \o input \o ss \o t
         \o <<Arg("-filter_complex"), FilterArg(o), Arg("opts.Output")>>

\* ------------------------------------------- displayProgressBar: what it draws
FallbackWidth == 80  \* termWidth := 80
BorderWidth == 4     \* strings.Repeat(..., termWidth-4)
TitleWidth == 28     \* strings.Repeat(..., termWidth-28)
SideWidth == 2       \* strings.Repeat(..., termWidth-2)
BarMargin == 6       \* barWidth := termWidth - 6
InitialRows == 7     \* the seven Println of the empty box
InitialUp == 5       \* fmt.Print("\033[5A")
BarPrefixLen == 12   \* " Progress: [" of the format " %s [%s] %s"
BarSuffixLen == 2    \* "] "
PercentLen == 6      \* "%5.1f%%" of a percentage between 0 and 100
BlockLines == 4      \* the four Println of a known-total redraw
BlockUp == 4         \* fmt.Print("\033[4A")

\* term.GetSize(0) gave width w, or failed (w = 0)
DetectedWidth(w) == IF w > 0 THEN w ELSE FallbackWidth

\* The repeat counts of the seven lines drawn before the loop.
InitialCounts(w) == {w - BorderWidth, w - TitleWidth, w - SideWidth}

\* Nothing drawn yet.  mode: "none", "initial" (the empty box), "single" (the
\* one-line unknown-total display) or "block" (the four-line block); total is
\* the TotalDuration the tick read; percentage is a reduced fraction; filled
\* and unfilled are the bar's two repeat counts; divided tells whether the tick
\* divided by TotalDuration; lineLen is the visible length of the progress-bar
\* line; rows is how many terminal rows the cursor went down while the frame
\* was written and up how many it was moved up afterwards; remaining is the
\* remainingTime handed to formatDuration, in seconds and as a reduced
\* fraction, and remainingText what stands in its place: "none", or
\* "duration" (formatDuration's digits and unit).
NoFrame ==
    [mode |-> "none", total |-> 0, percentage |-> <<0, 1>>, filled |-> 0,
     unfilled |-> 0, divided |-> FALSE, lineLen |-> 0, rows |-> 0, up |-> 0,
     remaining |-> <<0, 1>>, remainingText |-> "none"]

\* How many rows the cursor goes down when a line of len visible characters
\* is written from column 0 of a w-column terminal and ended with a newline.
Rows(len, w) == IF len = 0 THEN 1 ELSE (len + w - 1) \div w

\* "Calculate time remaining", in seconds (positions in centiseconds over a
\* rate in hundredths)
RemainingTime(p) ==
    IF p.ProcessingRate > 0 /\ p.CurrentTime > 0
    THEN IF p.TotalDuration - p.CurrentTime < 0
         THEN <<0, 1>>
         ELSE Mean(p.TotalDuration - p.CurrentTime, p.ProcessingRate)
    ELSE <<0, 1>>

\* Percentage without the upper clamp.
Percentage_Unclamped(p) ==
    IF p.TotalDuration > 0
    THEN Mean(p.CurrentTime * 100, p.TotalDuration)
    ELSE <<0, 1>>

\* (CurrentTime / TotalDuration) * 100, at most 100
Percentage(p) ==
    IF p.TotalDuration > 0
    THEN IF p.CurrentTime * 100 > 100 * p.TotalDuration
         THEN <<100, 1>>
         ELSE Mean(p.CurrentTime * 100, p.TotalDuration)
    ELSE <<0, 1>>

\* int((percentage / 100) * float64(barWidth)), clamped to 0 and to barWidth
ProgressLen(pct, barWidth) ==
    LET raw == (pct[1] * barWidth) \div (pct[2] * 100)
        low == IF raw < 0 THEN 0 ELSE raw
    IN IF low > barWidth THEN barWidth ELSE low

\* UnknownTotal that never holds: every tick draws the block.
UnknownTotal_Never(p) == FALSE

\* if progress.TotalDuration <= 0
UnknownTotal(p) == p.TotalDuration <= 0

\* What one tick draws for progress p on a terminal w columns wide.  The three
\* lines under the bar, and the unknown-total line, are taken at their least:
\* no longer than the terminal is wide.
TickFrame(p, w) ==
    IF UnknownTotal(p)
    THEN [NoFrame EXCEPT !.mode = "single", !.total = p.TotalDuration]
    ELSE LET barWidth == w - BarMargin
             progressLen == ProgressLen(Percentage(p), barWidth)
             lineLen == BarPrefixLen + progressLen + (barWidth - progressLen)
                          + BarSuffixLen + PercentLen
         IN [mode |-> "block", total |-> p.TotalDuration,
             percentage |-> Percentage(p), filled |-> progressLen,
             unfilled |-> barWidth - progressLen,
             divided |-> p.TotalDuration > 0,
             lineLen |-> lineLen,
             rows |-> Rows(lineLen, w) + (BlockLines - 1),
             up |-> BlockUp,
             remaining |-> RemainingTime(p),
             remainingText |-> "duration"]

\* ------------------------------------------------------ the Manager (ffmpeg.go)
MaxTempDirs == 3     \* most temporary directories one run makes

\* A path: none (""), the system FFmpeg, or the binary in temporary directory d.
NoPath == [kind |-> "none", dir |-> 0]
SystemPath == [kind |-> "system", dir |-> 0]
TempPath(d) == [kind |-> "temp", dir |-> d]

\* NewManager(); extractedPath 0 is "".
NewManager == [extractedPath |-> 0, extractedBinary |-> NoPath, extracted |-> FALSE]

NoCall == [op |-> "none", path |-> NoPath, err |-> FALSE]

\* What the program finds around it: whether opts.Input exists, whether the
\* platform has a binary name, whether that binary is embedded, whether
\* exec.LookPath finds a system FFmpeg.
Envs ==
    [inputExists : BOOLEAN, supported : BOOLEAN, embedded : BOOLEAN,
     systemFFmpeg : BOOLEAN]

\* os.Stat(path) returns no error
Exists(path) ==
    \/ path.kind = "system" /\ env.systemFFmpeg
    \/ path.kind = "temp" /\ path.dir \in binaries

\* Cached that never holds: every GetPath call extracts.
Cached_Never == FALSE

\* GetPath answers from what it remembers.
Cached ==
    manager.extracted /\ manager.extractedBinary # NoPath
       /\ Exists(manager.extractedBinary)

\* findSystemFFmpeg: the new fields, the path and whether an error is returned
FindSystemFFmpeg(m) ==
    IF env.systemFFmpeg
    THEN [m |-> [m EXCEPT !.extractedBinary = SystemPath, !.extracted = TRUE],
          path |-> SystemPath, err |-> FALSE]
    ELSE [m |-> m, path |-> NoPath, err |-> TRUE]

\* extractBinary, d being the directory MkdirTemp makes if it succeeds
ExtractBinary(m, d, mkdirOk, writeOk) ==
    IF ~env.supported \/ ~mkdirOk THEN [m |-> m, path |-> NoPath, err |-> TRUE]
    ELSE LET m1 == [m EXCEPT !.extractedPath = d]
         IN IF ~env.embedded THEN FindSystemFFmpeg(m1)
            ELSE IF ~writeOk THEN [m |-> m1, path |-> NoPath, err |-> TRUE]
            ELSE [m |-> [m1 EXCEPT !.extractedBinary = TempPath(d),
                                   !.extracted = TRUE],
                  path |-> TempPath(d), err |-> FALSE]

\* One call of Manager.GetPath: the cached path if its file is still there,
\* else extractBinary.
ManagerGetPath(mkdirOk, writeOk) ==
    LET d == dirCount + 1
        r == ExtractBinary([manager EXCEPT !.extracted = FALSE], d, mkdirOk,
                           writeOk)
        made == env.supported /\ mkdirOk
        wrote == made /\ env.embedded /\ writeOk
    IN IF Cached
       THEN /\ lastCall' = [op |-> "GetPath", path |-> manager.extractedBinary,
                            err |-> FALSE]
            /\ UNCHANGED <<env, manager, tempDirs, binaries, dirCount>>
       ELSE /\ dirCount < MaxTempDirs
            /\ manager' = r.m
            /\ tempDirs' = IF made THEN tempDirs \cup {d} ELSE tempDirs
            /\ binaries' = IF wrote THEN binaries \cup {d} ELSE binaries
            /\ dirCount' = IF made THEN d ELSE dirCount
            /\ lastCall' = [op |-> "GetPath", path |-> r.path, err |-> r.err]
            /\ UNCHANGED env

\* ------------------------------------------------ timeToSeconds on its text
DigitChars == <<"0", "1", "2", "3", "4", "5", "6", "7", "8", "9">>

DigitValue(c) == (CHOOSE n \in 1..10 : DigitChars[n] = c) - 1

\* How many digits t starts with.
RECURSIVE LeadingDigits(_)
LeadingDigits(t) ==
    IF t = <<>> \/ t[1] \notin Digits THEN 0 ELSE 1 + LeadingDigits(Tail(t))

\* The number the first n characters of t (all digits) spell.
RECURSIVE Decimal(_, _)
Decimal(t, n) == IF n = 0 THEN 0 ELSE 10 * Decimal(t, n - 1) + DigitValue(t[n])

\* fmt.Sscanf(t, "%f", &x) into a zero x, for texts without sign, point or
\* exponent: the digits t starts with, and 0 (x left alone) when there are none.
ScanFloat(t) == Decimal(t, LeadingDigits(t))

RECURSIVE Pow10(_)
Pow10(n) == IF n = 0 THEN 1 ELSE 10 * Pow10(n - 1)

\* timeToSeconds with the minutes left out of the sum.
timeToSecondsText_NoMinutes(t) ==
    LET parts == Split(t, ":")
    IN IF Len(parts) # 3 THEN 0
       ELSE LET h == ScanFloat(parts[1])
                secParts == Split(parts[3], ".")
                sec == ScanFloat(secParts[1])
                ms == IF Len(secParts) > 1
                      THEN (ScanFloat(secParts[2]) * 100) \div Pow10(Len(secParts[2]))
                      ELSE 0
            IN (h * 3600 + sec) * 100 + ms

\* timeToSeconds(timeStr), in centiseconds; a fraction of more than two digits
\* loses what lies below the centisecond.
timeToSecondsText(t) ==
    LET parts == Split(t, ":")
    IN IF Len(parts) # 3 THEN 0
       ELSE LET h == ScanFloat(parts[1])
                m == ScanFloat(parts[2])
                secParts == Split(parts[3], ".")
                sec == ScanFloat(secParts[1])
                ms == IF Len(secParts) > 1
                      THEN (ScanFloat(secParts[2]) * 100) \div Pow10(Len(secParts[2]))
                      ELSE 0
            IN (h * 3600 + m * 60 + sec) * 100 + ms

\* A number below 100 as two digits, and the fields f as the text HH:MM:SS.cc
TwoDigits(n) == <<DigitChars[(n \div 10) + 1], DigitChars[(n % 10) + 1]>>

ClockText(f) ==
    TwoDigits(f[1]) \o <<":">> \o TwoDigits(f[2]) \o <<":">> \o TwoDigits(f[3])
      \o <<".">> \o TwoDigits(f[4])

\* The field values tried in each of the four places.
ClockFields == {0, 1, 9, 10, 30, 50, 59, 90, 99}

\* ----------------------------------------------------- bufio.Scanner's buffer
StartBufSize == 65536      \* buf := make([]byte, 64*1024)
MaxTokenSize == 1048576    \* scanner.Buffer(buf, 1024*1024)

\* scanner.Scan() on a line of n bytes before its newline, the buffer being
\* bufLen bytes: the line is returned once the newline is in the buffer; a
\* full buffer without one is doubled, up to MaxTokenSize, and a full buffer
\* of MaxTokenSize bytes ends the scan with ErrTooLong.
RECURSIVE ScanToken(_, _)
ScanToken(bufLen, n) ==
    IF n + 1 <= bufLen THEN "line"
    ELSE IF bufLen >= MaxTokenSize THEN "ErrTooLong"
    ELSE ScanToken(IF 2 * bufLen > MaxTokenSize THEN MaxTokenSize ELSE 2 * bufLen, n)

LenSpread == 20   \* line lengths tried lie this close around MaxTokenSize

LongLens ==
    {0, StartBufSize - 1, StartBufSize}
      \cup ((MaxTokenSize - LenSpread)..(MaxTokenSize + LenSpread))
ShortLens == {10, StartBufSize}

\* ------------------------------------------------------------------- state
\* Everything but the inputs, as it is when RunE is entered: nothing started,
\* ffmpegManager fresh from NewManager, nothing drawn.
InitState ==
    /\ mainPc = "runE"
    /\ failure = "none"
    /\ ret = "none"
    /\ errTail = [lo |-> 1, hi |-> 0]
    /\ exitStatus = -1
    /\ crashed = FALSE
    /\ finalProgress = "nil"
    /\ summary = [started |-> FALSE, complete |-> FALSE, Width |-> -1,
                  Height |-> -1, Frames |-> -1, AvgProcessRate |-> <<-1, 1>>]
    /\ procState = "notstarted"
    /\ procExit = -1
    /\ outWritten = 0
    /\ errWritten = 0
    /\ pipesClosed = FALSE
    /\ scPc = "notstarted"
    /\ scIdx = 0
    /\ update = ZeroUpdate
    /\ progressChan = <<>>
    /\ chanClosed = FALSE
    /\ dpPc = "notstarted"
    /\ progress = InitProgress
    /\ disp = InitDisp
    /\ drPc = "notstarted"
    /\ errRead = 0
    /\ errOutput = 0
    /\ produced = <<>>
    /\ delivered = <<>>
    /\ lastDropped = FALSE
    /\ probed = FALSE
    /\ ffmpegArgs = <<>>
    /\ frame = NoFrame
    /\ manager = NewManager
    /\ tempDirs = {}
    /\ binaries = {}
    /\ dirCount = 0
    /\ lastCall = NoCall
    /\ timeSeconds = -1
    /\ linesScanned = 0
    /\ scanErr = "none"

\* No text is handed to timeToSeconds by hand and no line lengths are fixed.
NoPureInput == timeText = <<>> /\ lineLens = <<>>

\* The flags' defaults, an 80-column terminal, an embedded binary and a system
\* FFmpeg; every display mode, status stream and output length, the input file
\* there or not.
Init ==
    /\ NoProgress \in BOOLEAN
    /\ script \in Scripts
    /\ nOut \in 0..MaxLines
    /\ nErr \in 0..MaxErrChunks
    /\ opts = DefaultOpts
    /\ termWidth = FallbackWidth
    /\ env \in {e \in Envs : e.supported /\ e.embedded /\ e.systemFFmpeg}
    /\ NoPureInput
    /\ InitState

\* The process is still there: no goroutine panicked and os.Exit has not run.
Alive == ~crashed /\ mainPc # "exited"

procVars == <<procState, procExit, outWritten, errWritten>>
scanVars == <<scPc, scIdx, update, produced, lastDropped>>
dispVars == <<dpPc, progress, disp, delivered, frame>>
drainVars == <<drPc, errRead, errOutput>>
mainVars == <<mainPc, failure, ret, errTail, exitStatus, finalProgress, summary,
              pipesClosed, chanClosed, probed, ffmpegArgs>>
inputVars == <<NoProgress, script, nOut, nErr, opts, termWidth>>
mgrVars == <<env, manager, tempDirs, binaries, dirCount, lastCall>>
pureVars == <<timeText, timeSeconds, lineLens, linesScanned, scanErr>>

\* ------------------------------------------------------------ the subprocess
StdoutPipeLen == outWritten - scIdx
StderrPipeLen == errWritten - errRead

ProcWriteOut ==
    /\ Alive /\ procState = "running"
    /\ outWritten < nOut
    /\ StdoutPipeLen < OutPipeCap
    /\ outWritten' = outWritten + 1
    /\ UNCHANGED <<procState, procExit, errWritten, inputVars, pureVars, mgrVars, mainVars, crashed,
                   scanVars, progressChan, dispVars, drainVars>>

ProcWriteErr ==
    /\ Alive /\ procState = "running"
    /\ errWritten < nErr
    /\ StderrPipeLen < ErrPipeCap
    /\ errWritten' = errWritten + 1
    /\ UNCHANGED <<procState, procExit, outWritten, inputVars, pureVars, mgrVars, mainVars, crashed,
                   scanVars, progressChan, dispVars, drainVars>>

ProcExit ==
    /\ Alive /\ procState = "running"
    /\ outWritten = nOut /\ errWritten = nErr
    /\ \E code \in {0, 1} : procExit' = code
    /\ procState' = "exited"
    /\ UNCHANGED <<outWritten, errWritten, inputVars, pureVars, mgrVars, mainVars, crashed,
                   scanVars, progressChan, dispVars, drainVars>>

\* ----------------------------------------- main goroutine: RunE, convertVideo
\* The last min(500, n) characters of the n captured ones, as offsets.
ErrTail(n) == [lo |-> IF n > TailLimit THEN n - TailLimit + 1 ELSE 1, hi |-> n]

\* return fmt.Errorf(...) for failure f, before any summary line
Fail(f) ==
    /\ failure' = f
    /\ ret' = "err"
    /\ mainPc' = "returned"

othersButManager == <<inputVars, pureVars, crashed, procVars, scanVars, progressChan,
                      dispVars, drainVars>>
others == <<othersButManager, mgrVars>>

\* RunE that goes on to convertVideo without the os.Stat of the input.
RunE_NoStat ==
    /\ Alive /\ mainPc = "runE"
    /\ mainPc' = "preflight"
    /\ UNCHANGED <<failure, ret, errTail, exitStatus, finalProgress, summary,
                   pipesClosed, chanClosed, probed, ffmpegArgs, others>>

\* convertCmd.RunE: the input file must exist
RunE ==
    /\ Alive /\ mainPc = "runE"
    /\ IF env.inputExists THEN mainPc' = "preflight" /\ UNCHANGED <<failure, ret>>
       ELSE Fail("input")
    /\ UNCHANGED <<errTail, exitStatus, finalProgress, summary, pipesClosed,
                   chanClosed, probed, ffmpegArgs, others>>

\* MainPreflight that looks at neither GetPath's error nor the probe's.
MainPreflight_Unchecked ==
    /\ Alive /\ mainPc = "preflight"
    /\ \E mkdirOk, writeOk \in BOOLEAN : ManagerGetPath(mkdirOk, writeOk)
    /\ probed' = TRUE
    /\ mainPc' = "getpath"
    /\ UNCHANGED <<failure, ret, errTail, exitStatus, finalProgress, summary,
                   pipesClosed, chanClosed, ffmpegArgs, othersButManager>>

\* checkFFmpegInstallation: GetPath, then the -version probe of the path it
\* returned
MainPreflight ==
    /\ Alive /\ mainPc = "preflight"
    /\ \E mkdirOk, writeOk, probeOk \in BOOLEAN :
          /\ ManagerGetPath(mkdirOk, writeOk)
          /\ IF lastCall'.err
             THEN Fail("resolve") /\ UNCHANGED probed
             ELSE /\ probed' = TRUE
                  /\ IF probeOk
                     THEN mainPc' = "getpath" /\ UNCHANGED <<failure, ret>>
                     ELSE Fail("probe")
    /\ UNCHANGED <<errTail, exitStatus, finalProgress, summary, pipesClosed,
                   chanClosed, ffmpegArgs, othersButManager>>

\* ffmpegPath, err := ffmpegManager.GetPath() in convertVideo
MainGetPath ==
    /\ Alive /\ mainPc = "getpath"
    /\ \E mkdirOk, writeOk \in BOOLEAN :
          /\ ManagerGetPath(mkdirOk, writeOk)
          /\ IF lastCall'.err THEN Fail("getpath")
             ELSE mainPc' = "args" /\ UNCHANGED <<failure, ret>>
    /\ UNCHANGED <<errTail, exitStatus, finalProgress, summary, pipesClosed,
                   chanClosed, probed, ffmpegArgs, othersButManager>>

\* "Prepare FFmpeg arguments" ... ffmpegArgs = append(ffmpegArgs, opts.Output)
MainBuildArgs ==
    /\ Alive /\ mainPc = "args"
    /\ ffmpegArgs' = BuildArgs(opts)
    /\ mainPc' = "start"
    /\ UNCHANGED <<failure, ret, errTail, exitStatus, finalProgress, summary,
                   pipesClosed, chanClosed, probed, others>>

\* the pipes, make(chan ProgressUpdate, 10), ffmpegCmd.Start()
MainStart ==
    /\ Alive /\ mainPc = "start"
    /\ \E started \in BOOLEAN :
          IF started
          THEN /\ procState' = "running"
               /\ mainPc' = "spawn"
               /\ UNCHANGED <<failure, ret>>
          ELSE Fail("start") /\ UNCHANGED procState
    /\ UNCHANGED <<errTail, exitStatus, finalProgress, summary, pipesClosed,
                   chanClosed, inputVars, pureVars, mgrVars, crashed, procExit, outWritten,
                   errWritten, scanVars, progressChan, dispVars, drainVars>>
    /\ UNCHANGED <<probed, ffmpegArgs>>

\* if !opts.NoProgress { runProgressTracking(stdout, ...) } else { go trackProgress(teeStderr) }
MainSpawn ==
    /\ Alive /\ mainPc = "spawn"
    /\ IF ~NoProgress
       THEN /\ finalProgress' = "progress"
            /\ scPc' = "read"
            /\ dpPc' = "init"
            /\ UNCHANGED drPc
       ELSE /\ drPc' = "read"
            /\ UNCHANGED <<finalProgress, scPc, dpPc>>
    /\ mainPc' = "wait"
    /\ UNCHANGED <<failure, ret, errTail, exitStatus, summary, pipesClosed,
                   chanClosed, inputVars, pureVars, mgrVars, crashed, procVars, scIdx, update,
                   produced, lastDropped, progressChan, progress, disp,
                   delivered, errRead, errOutput>>
    /\ UNCHANGED <<probed, ffmpegArgs>>
    /\ UNCHANGED frame

\* MainWait that does not look at Wait's error: a failed subprocess falls
\* through to the summary.
MainWait_IgnoresExit ==
    /\ Alive /\ mainPc = "wait"
    /\ procState = "exited"
    /\ pipesClosed' = TRUE
    /\ mainPc' = "close"
    /\ UNCHANGED <<errTail, failure, ret, exitStatus, finalProgress, summary,
                   chanClosed, others>>
    /\ UNCHANGED <<probed, ffmpegArgs>>

\* ffmpegCmd.Wait(): returns once the subprocess has exited and closes the
\* parent's ends of the pipes; on a non-zero exit the error carries the tail
\* of what errOutput holds at that moment.
MainWait ==
    /\ Alive /\ mainPc = "wait"
    /\ procState = "exited"
    /\ pipesClosed' = TRUE
    /\ IF procExit # 0
       THEN /\ errTail' = ErrTail(errOutput)
            /\ Fail("exit")
       ELSE /\ mainPc' = "close"
            /\ UNCHANGED <<errTail, failure, ret>>
    /\ UNCHANGED <<exitStatus, finalProgress, summary, chanClosed, others>>
    /\ UNCHANGED <<probed, ffmpegArgs>>

\* close(progressChan)
MainClose ==
    /\ Alive /\ mainPc = "close"
    /\ chanClosed' = TRUE
    /\ mainPc' = "stat"
    /\ UNCHANGED <<failure, ret, errTail, exitStatus, finalProgress, summary,
                   pipesClosed, others>>
    /\ UNCHANGED <<probed, ffmpegArgs>>

\* time.Sleep(300ms); os.Stat(opts.Output)
MainStat ==
    /\ Alive /\ mainPc = "stat"
    /\ \E statOk \in BOOLEAN :
          IF statOk THEN mainPc' = "dims" /\ UNCHANGED <<failure, ret>>
          ELSE Fail("stat")
    /\ UNCHANGED <<errTail, exitStatus, finalProgress, summary, pipesClosed,
                   chanClosed, others>>
    /\ UNCHANGED <<probed, ffmpegArgs>>

\* The banner and the Output and Size rows, then the Dimensions row, which
\* reads finalProgress.Width and finalProgress.Height: a nil pointer
\* dereference when progress tracking was never started.
MainSummaryDims ==
    /\ Alive /\ mainPc = "dims"
    /\ IF finalProgress = "nil"
       THEN /\ crashed' = TRUE
            /\ exitStatus' = ExitPanic
            /\ summary' = [summary EXCEPT !.started = TRUE]
            /\ UNCHANGED mainPc
       ELSE /\ summary' = [summary EXCEPT !.started = TRUE,
                                          !.Width = progress.Width,
                                          !.Height = progress.Height]
            /\ mainPc' = "frames"
            /\ UNCHANGED <<crashed, exitStatus>>
    /\ UNCHANGED <<failure, ret, errTail, finalProgress, pipesClosed, chanClosed,
                   inputVars, pureVars, mgrVars, procVars, scanVars, progressChan, dispVars,
                   drainVars>>
    /\ UNCHANGED <<probed, ffmpegArgs>>

\* the Frames row
MainSummaryFrames ==
    /\ Alive /\ mainPc = "frames"
    /\ summary' = [summary EXCEPT !.Frames = progress.Frames]
    /\ mainPc' = "rate"
    /\ UNCHANGED <<failure, ret, errTail, exitStatus, finalProgress, pipesClosed,
                   chanClosed, others>>
    /\ UNCHANGED <<probed, ffmpegArgs>>

\* the Conversion time and Processing rate rows, the frame's bottom; return nil
MainSummaryRate ==
    /\ Alive /\ mainPc = "rate"
    /\ summary' = [summary EXCEPT !.AvgProcessRate = progress.AvgProcessRate,
                                  !.complete = TRUE]
    /\ ret' = "ok"
    /\ mainPc' = "returned"
    /\ UNCHANGED <<failure, errTail, exitStatus, finalProgress, pipesClosed,
                   chanClosed, others>>
    /\ UNCHANGED <<probed, ffmpegArgs>>

\* Execute: print the error and os.Exit(1), or return to main, which ends
Execute ==
    /\ Alive /\ mainPc = "returned"
    /\ exitStatus' = IF ret = "ok" THEN ExitOK ELSE ExitError
    /\ mainPc' = "exited"
    /\ UNCHANGED <<failure, ret, errTail, finalProgress, summary, pipesClosed,
                   chanClosed, others>>
    /\ UNCHANGED <<probed, ffmpegArgs>>

\* ------------------------------------------------- parseFFmpegOutput (task)
\* scanner.Scan() returned a line: every extractor runs, and the loop decides
\* whether to hand the update off (changed, or frames seen and 200 ms elapsed
\* since the last hand-off).
ScannerScan ==
    /\ Alive /\ scPc = "read"
    /\ ~pipesClosed
    /\ scIdx < outWritten
    /\ LET l == Line(script, scIdx + 1)
           u == ScanLine(update, l)
       IN /\ update' = u
          /\ \E elapsed200 \in BOOLEAN :
                scPc' = IF Changed(update, l) \/ (u.FramesProcessed > 0 /\ elapsed200)
                        THEN "send" ELSE "read"
    /\ scIdx' = scIdx + 1
    /\ UNCHANGED <<produced, lastDropped, inputVars, pureVars, mgrVars, mainVars, crashed, procVars,
                   progressChan, dispVars, drainVars>>

\* scanner.Scan() returned false: end of stream, or a read on the pipe that
\* cmd.Wait has closed (what the pipe still held is lost).
ScannerEnd ==
    /\ Alive /\ scPc = "read"
    /\ \/ pipesClosed
       \/ procState = "exited" /\ scIdx = outWritten
    /\ scPc' = "done"
    /\ UNCHANGED <<scIdx, update, produced, lastDropped, inputVars, pureVars, mgrVars, mainVars,
                   crashed, procVars, progressChan, dispVars, drainVars>>

\* ChanAfterSend putting the new element at the head of the buffer.
ChanAfterSend_AtHead(ch, e) == <<e>> \o ch

\* The channel after a send of element e that found room.
ChanAfterSend(ch, e) == Append(ch, e)

\* select { case progressChan <- update: default: }.  A send on a closed
\* channel panics, in a select with a default case too.
ScannerSend ==
    /\ Alive /\ scPc = "send"
    /\ LET e == [seq |-> scIdx, u |-> update]
       IN IF chanClosed
          THEN /\ crashed' = TRUE
               /\ exitStatus' = ExitPanic
               /\ UNCHANGED <<scPc, progressChan, produced, lastDropped>>
          ELSE /\ produced' = Append(produced, e)
               /\ scPc' = "read"
               /\ UNCHANGED <<crashed, exitStatus>>
               /\ IF Len(progressChan) < ChanCap
                  THEN /\ progressChan' = ChanAfterSend(progressChan, e)
                       /\ lastDropped' = FALSE
                  ELSE /\ UNCHANGED progressChan
                       /\ lastDropped' = TRUE
    /\ UNCHANGED <<scIdx, update, inputVars, pureVars, mgrVars, mainPc, failure, ret, errTail,
                   finalProgress, summary, pipesClosed, chanClosed, procVars,
                   dispVars, drainVars>>
    /\ UNCHANGED <<probed, ffmpegArgs>>

\* ------------------------------------------------ displayProgressBar (task)
\* The terminal width is taken and the empty box is drawn: seven lines whose
\* repeat counts are termWidth-4, termWidth-28 and termWidth-2.
\* strings.Repeat panics on a negative count.
DisplayInit ==
    /\ Alive /\ dpPc = "init"
    /\ IF \A c \in InitialCounts(termWidth) : c >= 0
       THEN /\ frame' = [NoFrame EXCEPT !.mode = "initial", !.rows = InitialRows,
                                        !.up = InitialUp]
            /\ dpPc' = "loop"
            /\ UNCHANGED <<crashed, exitStatus>>
       ELSE /\ crashed' = TRUE
            /\ exitStatus' = ExitPanic
            /\ dpPc' = "panicked"
            /\ UNCHANGED frame
    /\ UNCHANGED <<progress, disp, delivered, inputVars, pureVars, mgrVars, mainPc,
                   failure, ret, errTail, finalProgress, summary, pipesClosed,
                   chanClosed, probed, ffmpegArgs, procVars, scanVars,
                   progressChan, drainVars>>

\* DisplayTick run by a task of its own while the receive is storing the next
\* update: the position is the new one, the other fields are still the old.
DisplayTick_Torn ==
    /\ Alive /\ dpPc = "loop"
    /\ LET p == IF progressChan # <<>>
                THEN [progress EXCEPT
                        !.CurrentTime = Head(progressChan).u.CurrentTime]
                ELSE progress
           f == TickFrame(p, termWidth)
       IN IF f.filled >= 0 /\ f.unfilled >= 0
          THEN /\ frame' = f
               /\ UNCHANGED <<dpPc, crashed, exitStatus>>
          ELSE /\ crashed' = TRUE
               /\ exitStatus' = ExitPanic
               /\ dpPc' = "panicked"
               /\ UNCHANGED frame
    /\ UNCHANGED <<progress, disp, delivered, inputVars, pureVars, mgrVars, mainPc,
                   failure, ret, errTail, finalProgress, summary, pipesClosed,
                   chanClosed, probed, ffmpegArgs, procVars, scanVars,
                   progressChan, drainVars>>

\* case <-ticker.C: the one-line display while the total is unknown, else
\* the four-line block with the bar.
DisplayTick ==
    /\ Alive /\ dpPc = "loop"
    /\ LET f == TickFrame(progress, termWidth)
       IN IF f.filled >= 0 /\ f.unfilled >= 0
          THEN /\ frame' = f
               /\ UNCHANGED <<dpPc, crashed, exitStatus>>
          ELSE /\ crashed' = TRUE
               /\ exitStatus' = ExitPanic
               /\ dpPc' = "panicked"
               /\ UNCHANGED frame
    /\ UNCHANGED <<progress, disp, delivered, inputVars, pureVars, mgrVars, mainPc,
                   failure, ret, errTail, finalProgress, summary, pipesClosed,
                   chanClosed, probed, ffmpegArgs, procVars, scanVars,
                   progressChan, drainVars>>

\* The channel after a receive.
ChanAfterRecv(ch) == Tail(ch)

\* case update, ok := <-progressChan with ok: the update is applied
DisplayReceive ==
    /\ Alive /\ dpPc = "loop"
    /\ progressChan # <<>>
    /\ LET e == Head(progressChan)
       IN /\ progress' = ApplyProgress(progress, disp, e.u)
          /\ disp' = ApplyDisp(progress, disp, e.u)
          /\ delivered' = Append(delivered, e)
    /\ progressChan' = ChanAfterRecv(progressChan)
    /\ UNCHANGED <<dpPc, inputVars, pureVars, mgrVars, mainVars, crashed, procVars, scanVars,
                   drainVars>>
    /\ UNCHANGED frame

\* case update, ok := <-progressChan with !ok: return
DisplayClosed ==
    /\ Alive /\ dpPc = "loop"
    /\ progressChan = <<>> /\ chanClosed
    /\ dpPc' = "done"
    /\ UNCHANGED <<progress, disp, delivered, inputVars, pureVars, mgrVars, mainVars, crashed,
                   procVars, scanVars, progressChan, drainVars>>
    /\ UNCHANGED frame

\* ------------------------------------------- trackProgress(teeStderr) (task)
\* One chunk read through the tee: it lands in errOutput.
DrainRead ==
    /\ Alive /\ drPc = "read"
    /\ ~pipesClosed
    /\ errRead < errWritten
    /\ errRead' = errRead + 1
    /\ errOutput' = errOutput + ChunkLen
    /\ UNCHANGED <<drPc, inputVars, pureVars, mgrVars, mainVars, crashed, procVars, scanVars,
                   progressChan, dispVars>>

DrainEnd ==
    /\ Alive /\ drPc = "read"
    /\ \/ pipesClosed
       \/ procState = "exited" /\ errRead = errWritten
    /\ drPc' = "done"
    /\ UNCHANGED <<errRead, errOutput, inputVars, pureVars, mgrVars, mainVars, crashed, procVars,
                   scanVars, progressChan, dispVars>>

\* ------------------------------------------------- the Manager's operations
convertVars == <<inputVars, pureVars, mainVars, crashed, procVars, scanVars,
                 progressChan, dispVars, drainVars>>

\* Manager.GetPath
GetPath ==
    /\ \E mkdirOk, writeOk \in BOOLEAN : ManagerGetPath(mkdirOk, writeOk)
    /\ UNCHANGED convertVars

\* Manager.Cleanup: os.RemoveAll(m.extractedPath) and the fields reset, when
\* extractedPath is set
Cleanup ==
    /\ \E removeOk \in BOOLEAN :
          IF manager.extractedPath # 0
          THEN IF removeOk
               THEN /\ tempDirs' = tempDirs \ {manager.extractedPath}
                    /\ binaries' = binaries \ {manager.extractedPath}
                    /\ manager' = [extractedPath |-> 0,
                                   extractedBinary |-> NoPath,
                                   extracted |-> FALSE]
                    /\ lastCall' = [op |-> "Cleanup", path |-> NoPath,
                                    err |-> FALSE]
               ELSE /\ lastCall' = [op |-> "Cleanup", path |-> NoPath,
                                    err |-> TRUE]
                    /\ UNCHANGED <<manager, tempDirs, binaries>>
          ELSE /\ lastCall' = [op |-> "Cleanup", path |-> NoPath, err |-> FALSE]
               /\ UNCHANGED <<manager, tempDirs, binaries>>
    /\ UNCHANGED <<env, dirCount, convertVars>>

\* Something outside the program deletes an extracted binary.
BinaryRemoved ==
    /\ \E d \in binaries : binaries' = binaries \ {d}
    /\ UNCHANGED <<env, manager, tempDirs, dirCount, lastCall, convertVars>>

\* ------------------------------------------------ the two helpers on their own
programVars == <<inputVars, mainVars, crashed, procVars, scanVars, progressChan,
                 dispVars, drainVars, mgrVars>>

\* One call of timeToSeconds
TimeToSeconds ==
    /\ timeSeconds = -1
    /\ timeSeconds' = timeToSecondsText(timeText)
    /\ UNCHANGED <<timeText, lineLens, linesScanned, scanErr, programVars>>

\* for scanner.Scan() { ... }: the next line is returned, or it does not fit
\* and the loop is over
BufioScan ==
    /\ scanErr = "none"
    /\ linesScanned < Len(lineLens)
    /\ IF ScanToken(StartBufSize, lineLens[linesScanned + 1]) = "line"
       THEN /\ linesScanned' = linesScanned + 1
            /\ UNCHANGED scanErr
       ELSE /\ scanErr' = "ErrTooLong"
            /\ UNCHANGED linesScanned
    /\ UNCHANGED <<timeText, timeSeconds, lineLens, programVars>>

\* scanner.Scan() at the end of the stream
BufioEOF ==
    /\ scanErr = "none"
    /\ linesScanned = Len(lineLens)
    /\ scanErr' = "EOF"
    /\ UNCHANGED <<timeText, timeSeconds, lineLens, linesScanned, programVars>>

\* --------------------------------------------------------- specifications
\* Spec: one run of the convert command on an 80-column terminal.  What the
\* ticks draw changes nothing the rest of the program reads and is left to
\* SpecRender.
Next ==
    \/ RunE \/ MainPreflight \/ MainGetPath \/ MainBuildArgs \/ MainStart
    \/ MainSpawn \/ MainWait \/ MainClose \/ MainStat
    \/ MainSummaryDims \/ MainSummaryFrames \/ MainSummaryRate \/ Execute
    \/ ProcWriteOut \/ ProcWriteErr \/ ProcExit
    \/ ScannerScan \/ ScannerEnd \/ ScannerSend
    \/ DisplayInit \/ DisplayReceive \/ DisplayClosed
    \/ DrainRead \/ DrainEnd

Spec == Init /\ [][Next]_vars

\* SpecRender: a run with the progress display on terminals of every width,
\* the ticks included.
MaxTermWidth == 30    \* widest terminal detected (the fallback aside)
MaxRenderLines == 6   \* most status lines of a rendered run

InitRender ==
    /\ NoProgress = FALSE
    /\ script \in Scripts
    /\ nOut \in 0..MaxRenderLines
    /\ nErr = 0
    /\ opts = DefaultOpts
    /\ \E w \in 0..MaxTermWidth : termWidth = DetectedWidth(w)
    /\ env = [inputExists |-> TRUE, supported |-> TRUE, embedded |-> TRUE,
              systemFFmpeg |-> TRUE]
    /\ NoPureInput
    /\ InitState

NextRender ==
    \/ RunE \/ MainPreflight \/ MainGetPath \/ MainBuildArgs \/ MainStart
    \/ MainSpawn \/ MainWait \/ MainClose \/ MainStat
    \/ MainSummaryDims \/ MainSummaryFrames \/ MainSummaryRate \/ Execute
    \/ ProcWriteOut \/ ProcExit
    \/ ScannerScan \/ ScannerEnd \/ ScannerSend
    \/ DisplayInit \/ DisplayReceive \/ DisplayTick \/ DisplayClosed

SpecRender == InitRender /\ [][NextRender]_vars

\* SpecStart: the convert command up to ffmpegCmd.Start(), over every
\* configuration and environment.
InitStart ==
    /\ NoProgress = FALSE
    /\ script = "stats"
    /\ nOut = 0
    /\ nErr = 0
    /\ opts \in [FPS : {DefaultOpts.FPS}, Start : TimeTexts, Duration : TimeTexts,
                 Width : Widths, Quality : Qualities]
    /\ termWidth = FallbackWidth
    /\ env \in Envs
    /\ NoPureInput
    /\ InitState

NextStart ==
    \/ RunE \/ MainPreflight \/ MainGetPath \/ MainBuildArgs \/ MainStart
    \/ Execute \/ BinaryRemoved

SpecStart == InitStart /\ [][NextStart]_vars

\* SpecManager: any sequence of GetPath and Cleanup calls on one Manager,
\* extracted binaries disappearing in between.
InitManager ==
    /\ NoProgress = FALSE
    /\ script = "stats"
    /\ nOut = 0
    /\ nErr = 0
    /\ opts = DefaultOpts
    /\ termWidth = FallbackWidth
    /\ env \in Envs
    /\ NoPureInput
    /\ InitState

NextManager == GetPath \/ Cleanup \/ BinaryRemoved

SpecManager == InitManager /\ [][NextManager]_vars

\* SpecFeed: a run with the progress display on the "mixed" stream, long
\* enough to fill the frame-rate window and evict from it.
MaxFeedLines == 13   \* most status lines of such a run

InitFeed ==
    /\ NoProgress = FALSE
    /\ script = "mixed"
    /\ nOut \in 0..MaxFeedLines
    /\ nErr = 0
    /\ opts = DefaultOpts
    /\ termWidth = FallbackWidth
    /\ env = [inputExists |-> TRUE, supported |-> TRUE, embedded |-> TRUE,
              systemFFmpeg |-> TRUE]
    /\ NoPureInput
    /\ InitState

NextFeed ==
    \/ RunE \/ MainPreflight \/ MainGetPath \/ MainBuildArgs \/ MainStart
    \/ MainSpawn \/ MainWait \/ MainClose \/ MainStat
    \/ MainSummaryDims \/ MainSummaryFrames \/ MainSummaryRate \/ Execute
    \/ ProcWriteOut \/ ProcExit
    \/ ScannerScan \/ ScannerEnd \/ ScannerSend
    \/ DisplayInit \/ DisplayReceive \/ DisplayClosed

SpecFeed == InitFeed /\ [][NextFeed]_vars

\* SpecDrop: a run with the progress display and its ticks on the "stats"
\* stream, long enough for the channel to fill and an update to be dropped.
InitDrop ==
    /\ NoProgress = FALSE
    /\ script = "stats"
    /\ nOut \in 0..MaxLines
    /\ nErr = 0
    /\ opts = DefaultOpts
    /\ termWidth = FallbackWidth
    /\ env = [inputExists |-> TRUE, supported |-> TRUE, embedded |-> TRUE,
              systemFFmpeg |-> TRUE]
    /\ NoPureInput
    /\ InitState

SpecDrop == InitDrop /\ [][NextRender]_vars

\* The program as it is before RunE, for the specifications of one helper.
Idle ==
    /\ NoProgress = FALSE
    /\ script = "stats"
    /\ nOut = 0
    /\ nErr = 0
    /\ opts = DefaultOpts
    /\ termWidth = FallbackWidth
    /\ env = [inputExists |-> TRUE, supported |-> TRUE, embedded |-> TRUE,
              systemFFmpeg |-> TRUE]
    /\ InitState

\* SpecTime: timeToSeconds on every HH:MM:SS.cc text over ClockFields, and on
\* the texts of TimeTexts.
InitTime ==
    /\ timeText \in {ClockText(f) : f \in ClockFields \X ClockFields \X ClockFields
                                             \X ClockFields}
                       \cup TimeTexts
    /\ lineLens = <<>>
    /\ Idle

NextTime == TimeToSeconds

SpecTime == InitTime /\ [][NextTime]_vars

\* SpecScan: the scanner's loop over a stream of two lines, the first of a
\* length around the buffer's sizes.
InitScan ==
    /\ timeText = <<>>
    /\ \E a \in LongLens, b \in ShortLens : lineLens = <<a, b>>
    /\ Idle

NextScan == BufioScan \/ BufioEOF

SpecScan == InitScan /\ [][NextScan]_vars

\* ================================================================ claims
\* What the stream's first n lines leave in the scanner's update.
RECURSIVE UpdateAfter(_, _)
UpdateAfter(s, n) ==
    IF n = 0 THEN ZeroUpdate ELSE ScanLine(UpdateAfter(s, n - 1), Line(s, n))

\* The position a line shows (time=, out_time= or out_time_ms=), -1 if none.
LinePosition(l) ==
    IF l.time # <<>> THEN timeToSeconds(l.time)
    ELSE IF l.out_time # <<>> THEN timeToSeconds(l.out_time)
    ELSE IF l.out_time_ms >= 0 THEN l.out_time_ms \div 10000
    ELSE -1

\* The last position, rate and frame count among the first n lines, -1 if none.
RECURSIVE LastPosition(_, _)
LastPosition(s, n) ==
    IF n = 0 THEN -1
    ELSE IF LinePosition(Line(s, n)) >= 0 THEN LinePosition(Line(s, n))
    ELSE LastPosition(s, n - 1)

RECURSIVE LastSpeed(_, _)
LastSpeed(s, n) ==
    IF n = 0 THEN -1
    ELSE IF Line(s, n).speed >= 0 THEN Line(s, n).speed
    ELSE LastSpeed(s, n - 1)

RECURSIVE LastFrame(_, _)
LastFrame(s, n) ==
    IF n = 0 THEN -1
    ELSE IF Line(s, n).frame >= 0 THEN Line(s, n).frame
    ELSE LastFrame(s, n - 1)

\* t is a subsequence of s, in order
RECURSIVE IsSubseq(_, _)
IsSubseq(t, s) ==
    IF t = <<>> THEN TRUE
    ELSE IF s = <<>> THEN FALSE
    ELSE IF Head(t) = Head(s) THEN IsSubseq(Tail(t), Tail(s))
    ELSE IsSubseq(t, Tail(s))

\* C1: with --no-progress, a subprocess that exited 0 and an output file that
\* exists, convertVideo prints the summary and the process ends with status 0;
\* it does not abort while producing the summary.
C1_NoProgressSummary ==
    (NoProgress /\ summary.started) => (~crashed /\ exitStatus \in {-1, ExitOK})

\* C2: whenever the subprocess exits non-zero, in either display mode, the
\* returned error contains the last min(500, n) of the n characters the
\* subprocess wrote to stderr.
C2_ErrorHasStderrTail ==
    failure = "exit" =>
        LET want == ErrTail(errWritten * ChunkLen)
        IN want.hi >= want.lo => (errTail.lo <= want.lo /\ want.hi <= errTail.hi)

\* C3: convertVideo returns success and prints the summary only if the
\* subprocess exited 0 and the output file could be stat'ed; on every failure
\* it returns an error, prints no summary, and Execute exits non-zero.
C3_SuccessOnlyOnSuccess ==
    /\ ret = "ok" => (procExit = 0 /\ failure = "none" /\ summary.complete)
    /\ summary.started => (procExit = 0 /\ failure = "none")
    /\ failure # "none" => (ret = "err" /\ ~summary.started /\ ~summary.complete)
    /\ (failure # "none" /\ mainPc = "exited") => exitStatus = ExitError
    /\ (failure = "none" /\ mainPc = "exited") => exitStatus = ExitOK

C3_Witness ==
    /\ mainPc = "exited" /\ failure = "stat" /\ exitStatus = ExitError
    /\ procExit = 0 /\ delivered # <<>>

\* C4: the hand-off never blocks: when the channel already holds 10 updates,
\* the hand-off discards the new update, leaves the buffered ones unchanged
\* and the scanner goes on to read the next line.
C4_FullChannelDrops ==
    [][(ScannerSend /\ Len(progressChan) = ChanCap)
         => (progressChan' = progressChan /\ scPc' = "read" /\ ~crashed')]_vars

\* C5: the updates the aggregator receives are, in the same order, a
\* subsequence of the updates the scanner handed off: none is reordered or
\* delivered twice.
C5_DeliveredInOrder == IsSubseq(delivered, produced)

C5_Witness ==
    /\ Len(delivered) >= 3
    /\ Len(produced) > Len(delivered) + Len(progressChan)

\* C6: in both display modes some task reads the subprocess's stdout until
\* end-of-stream, so a subprocess that still has status lines to write is never
\* left with a full stdout pipe that no task reads.
C6_StdoutAlwaysDrained ==
    (mainPc = "wait" /\ procState = "running" /\ outWritten < nOut
       /\ StdoutPipeLen = OutPipeCap)
    => scPc \in {"read", "send"}

\* C7: there is no reachable state in which the subprocess is blocked writing
\* to a pipe nobody reads while the orchestrator is blocked waiting for its
\* exit.
C7_NoPipeDeadlock ==
    ~ /\ mainPc = "wait" /\ procState = "running"
      /\ outWritten < nOut \/ errWritten < nErr
      /\ outWritten < nOut =>
            (StdoutPipeLen = OutPipeCap /\ scPc \notin {"read", "send"})
      /\ errWritten < nErr => (StderrPipeLen = ErrPipeCap /\ drPc # "read")

\* C8: on success the summary's frame count, dimensions and average rate are
\* read only after the aggregator has applied the last update derived from the
\* subprocess's output, so they equal the last observed values; ProgressState
\* is never read while updates are still buffered or the scanner still runs.
C8_SummaryAfterLastUpdate ==
    /\ (~NoProgress /\ mainPc \in {"dims", "frames", "rate"})
          => (scPc = "done" /\ scIdx = nOut /\ progressChan = <<>>)
    /\ (~NoProgress /\ ret = "ok")
          => /\ summary.Frames = UpdateAfter(script, nOut).FramesProcessed
             /\ summary.Width = UpdateAfter(script, nOut).Width
             /\ summary.Height = UpdateAfter(script, nOut).Height

\* The scanner has consumed the whole stream and the channel is drained.
StreamConsumed == scPc = "done" /\ scIdx = nOut /\ progressChan = <<>>

\* ProgressState shows the last position, rate and frame count of the stream.
ShowsLastValues ==
    /\ LastPosition(script, nOut) > 0 =>
          progress.CurrentTime = LastPosition(script, nOut)
    /\ LastSpeed(script, nOut) > 0 =>
          progress.ProcessingRate = LastSpeed(script, nOut)
    /\ LastFrame(script, nOut) > 0 =>
          progress.FramesProcessed = LastFrame(script, nOut)

C10_PositionWithinTotal ==
    progress.TotalDuration > 0 => progress.CurrentTime <= progress.TotalDuration

\* C11: at every render tick the computed percentage lies in [0, 100], in
\* every reachable ProgressState, those whose position exceeds the total
\* duration included.
C11_PercentageInRange ==
    /\ frame.percentage[2] > 0
    /\ 0 <= frame.percentage[1]
    /\ frame.percentage[1] <= 100 * frame.percentage[2]

C11_Witness ==
    /\ frame.mode = "block"
    /\ frame = TickFrame(progress, termWidth)
    /\ progress.CurrentTime > progress.TotalDuration
    /\ frame.percentage = <<100, 1>>

\* C12: a tick that finds the total duration 0 draws the single-line
\* unknown-total display, never the four-line block, and divides nothing by the
\* total duration; when the stream never shows a duration, no tick of the run
\* draws the block.
C12_UnknownTotalSingleLine ==
    /\ frame.mode = "block" => frame.total > 0
    /\ frame.mode = "single" => (frame.total <= 0 /\ ~frame.divided)
    /\ UpdateAfter(script, nOut).TotalDuration = 0 => frame.mode # "block"

C12_Witness ==
    /\ frame.mode = "single" /\ frame.total = 0
    /\ script = "progress" /\ scPc = "done" /\ scIdx = nOut
    /\ Len(delivered) >= 2 /\ progress.FramesProcessed > 0

\* C13: for every detected terminal width >= 1, and for the 80-column
\* fallback, every repeat count the renderer computes (borders, padding, the
\* filled and unfilled bar segments) is non-negative, so drawing never panics
\* and never aborts the conversion.
C13_RepeatCountsNonNegative ==
    /\ dpPc # "panicked"
    /\ dpPc \in {"loop", "done"} => \A c \in InitialCounts(termWidth) : c >= 0
    /\ frame.filled >= 0 /\ frame.unfilled >= 0

C15_MissingInputFailsFirst ==
    ~env.inputExists =>
        /\ ~probed /\ procState = "notstarted" /\ lastCall = NoCall
        /\ mainPc # "runE" => (failure = "input" /\ ret = "err")

C15_Witness ==
    /\ ~env.inputExists /\ failure = "input"
    /\ mainPc = "exited" /\ exitStatus = ExitError

\* C16: if the start or the duration text is not a well-formed HH:MM:SS[.ms]
\* time, the convert command fails with a validation error and no subprocess
\* (probe or conversion) is started.
C16_MalformedTimeRejected ==
    (~ValidateTimeFormat(opts.Start) \/ ~ValidateTimeFormat(opts.Duration))
    => (~probed /\ procState = "notstarted")

\* Where argument a first stands in args, 0 if nowhere.
Position(args, a) ==
    IF \E i \in 1..Len(args) : args[i] = a
    THEN CHOOSE i \in 1..Len(args) :
             args[i] = a /\ \A k \in 1..(i - 1) : args[k] # a
    ELSE 0

\* C17: in the argument list convertVideo builds, a configured start time's
\* -ss and a configured duration's -t stand before the -i of the input.
C17_TrimBeforeInput ==
    ffmpegArgs # <<>> =>
        /\ opts.Start # <<>> =>
              /\ Position(ffmpegArgs, Arg("-ss")) > 0
              /\ Position(ffmpegArgs, Arg("-ss")) < Position(ffmpegArgs, Arg("-i"))
        /\ opts.Duration # <<>> =>
              /\ Position(ffmpegArgs, Arg("-t")) > 0
              /\ Position(ffmpegArgs, Arg("-t")) < Position(ffmpegArgs, Arg("-i"))

\* C18: the quality setting influences the invocation: a configuration that
\* differs from this one only in its quality yields a different argument list.
C18_QualityChangesArgs ==
    ffmpegArgs # <<>> =>
        \A q \in Qualities \ {opts.Quality} :
            BuildArgs([opts EXCEPT !.Quality = q]) # ffmpegArgs

\* C19: GetPath looks for FFmpeg in the system PATH first: the path it
\* returns is the system FFmpeg when there is one, and an extracted embedded
\* binary only when there is no system FFmpeg.
C19_SystemFirst ==
    (lastCall.op = "GetPath" /\ ~lastCall.err) =>
        /\ env.systemFFmpeg => lastCall.path = SystemPath
        /\ lastCall.path.kind = "temp" => ~env.systemFFmpeg

\* C20: after Cleanup returned nil, no temporary directory made by an earlier
\* GetPath call on this Manager exists any more, whatever the GetPath calls
\* were (successful, failed, re-extractions after the binary disappeared).
C20_CleanupRemovesAll ==
    (lastCall.op = "Cleanup" /\ ~lastCall.err) => tempDirs = {}


\* t has the form HH:MM:SS.cc, every field two digits.
WellFormedClock(t) ==
    /\ Len(t) = 11
    /\ t[3] = ":" /\ t[6] = ":" /\ t[9] = "."
    /\ \A i \in {1, 2, 4, 5, 7, 8, 10, 11} : t[i] \in Digits

\* The two-digit field of t that starts at place i.
ClockField(t, i) == 10 * DigitValue(t[i]) + DigitValue(t[i + 1])

\* C22: for every well-formed HH:MM:SS.cc text timeToSeconds returns
\* 3600*HH + 60*MM + SS + cc/100 (in centiseconds), which is also what the
\* scanner's model computes from the four fields.
C22_TimeToSeconds ==
    (timeSeconds # -1 /\ WellFormedClock(timeText)) =>
        LET hh == ClockField(timeText, 1)
            mm == ClockField(timeText, 4)
            ss == ClockField(timeText, 7)
            cc == ClockField(timeText, 10)
        IN /\ timeSeconds = 100 * (3600 * hh + 60 * mm + ss) + cc
           /\ timeSeconds = timeToSeconds(<<hh, mm, ss, cc>>)

\* 00:01:30.50 has been converted, to 90.5 seconds.
C22_Witness ==
    /\ timeText = <<"0", "0", ":", "0", "1", ":", "3", "0", ".", "5", "0">>
    /\ timeSeconds = 9050

\* C23: a line of at most 1 MiB does not end the scanner's loop: when no line
\* of the stream is longer, the loop never ends with ErrTooLong (and so reads
\* every line up to the end of the stream).
C23_LongLineTolerated ==
    (\A i \in 1..Len(lineLens) : lineLens[i] <= MaxTokenSize) =>
        scanErr # "ErrTooLong"


\* C24: the scanner never sends on the progress channel after convertVideo
\* has closed it: in no reachable state is the channel closed while the scanner
\* holds an update it is about to send.
C24_NoSendAfterClose == ~(chanClosed /\ scPc = "send")

\* C27: a status line on which no extractor matches causes no update to be
\* sent: the scanner is about to send only after a line that matched.
C27_UnmatchedLineSendsNothing ==
    scPc = "send" => Line(script, scIdx) # NoLine

\* C28: no ProgressState field other than the position, once it holds a
\* non-zero or non-empty value (the initial processing rate included), is set
\* to zero or empty by applying an update.
C28_FieldsNeverCleared ==
    [][/\ \A f \in {"TotalDuration", "ProcessingRate", "CurrentSize", "Bitrate",
                    "FramesProcessed", "Width", "Height"} :
              progress[f] # 0 => progress'[f] # 0
       /\ \A f \in {"SizeUnit", "BitrateUnit"} :
              progress[f] # "" => progress'[f] # ""]_vars


\* The last update the aggregator received and the one before it.
LastDelivered == delivered[Len(delivered)]
PrevDelivered == delivered[Len(delivered) - 1]

\* This step applies the update of a line that repeats the line before it,
\* whose update was the last one applied.
RepeatApplied ==
    /\ delivered # <<>>
    /\ delivered' # delivered
    /\ Head(progressChan).seq = LastDelivered.seq + 1
    /\ Line(script, Head(progressChan).seq) = Line(script, LastDelivered.seq)

\* C21: feeding the same status line twice in succession is idempotent on
\* ProgressState: applying the second line's update leaves every field, the
\* average rate and the frame-rate window as the first left them.
C21_RepeatedLineIdempotent ==
    [][RepeatApplied =>
          /\ progress' = progress
          /\ disp'.frameRates = disp.frameRates]_vars

\* The value of position form f on line l, in centiseconds.
FormValue(l, f) ==
    IF f = "time" THEN timeToSeconds(l.time)
    ELSE IF f = "out_time" THEN timeToSeconds(l.out_time)
    ELSE l.out_time_ms \div 10000

\* C25: when a line carries more than one position form, the position the
\* scanner takes from it is the value of the form that stands last in the line.
C25_LastFormWins ==
    (scIdx >= 1 /\ Len(Line(script, scIdx).order) > 1) =>
        LET l == Line(script, scIdx)
        IN update.CurrentTime = FormValue(l, l.order[Len(l.order)])

\* C26: once the scanner's total duration is non-zero, no later line changes
\* it, whatever Duration: or duration= values the line carries.
C26_DurationOneShot ==
    [][update.TotalDuration # 0 =>
          update'.TotalDuration = update.TotalDuration]_vars

\* The scanner holds the header's 5 s and has just read a line that carries
\* Duration: 00:00:09.00 and duration=7.00.
C26_Witness ==
    /\ scIdx >= 1
    /\ update.TotalDuration = 500
    /\ Line(script, scIdx).Duration = <<0, 0, 9, 0>>
    /\ Line(script, scIdx).duration = 700

\* The sum and the number of the speed= values on the first n lines.
RECURSIVE RateSum(_, _)
RateSum(s, n) ==
    IF n = 0 THEN 0
    ELSE RateSum(s, n - 1) + (IF Line(s, n).speed > 0 THEN Line(s, n).speed ELSE 0)

RECURSIVE RateCount(_, _)
RateCount(s, n) ==
    IF n = 0 THEN 0
    ELSE RateCount(s, n - 1) + (IF Line(s, n).speed > 0 THEN 1 ELSE 0)

\* C29: AvgProcessRate is the mean of the rates the stream's lines carry, each
\* speed= occurrence counted once: when the whole stream has been processed
\* and no update was dropped, it is (r1 + ... + rn) / n.
C29_AverageIsMeanOfSamples ==
    (StreamConsumed /\ delivered = produced /\ RateCount(script, nOut) > 0) =>
        progress.AvgProcessRate = Mean(RateSum(script, nOut), RateCount(script, nOut))

\* C30: the frame-rate window never holds more than 10 samples; a sample is
\* appended only by an update whose frame count is greater than the one
\* recorded before, and the append keeps the earlier samples in their order,
\* the oldest evicted when there were 10.
C30_FrameWindow ==
    [][LET old == disp.frameRates
           new == disp'.frameRates
           kept == IF Len(old) = FrameWindow THEN Tail(old) ELSE old
       IN /\ Len(new) <= FrameWindow
          /\ new # old =>
                /\ delivered' # delivered
                /\ delivered'[Len(delivered')].u.FramesProcessed > disp.lastFrameCount
                /\ Len(new) = Len(kept) + 1
                /\ SubSeq(new, 1, Len(kept)) = kept]_vars

\* All 13 updates of the "mixed" stream were applied: eleven of them raised
\* the frame count, and the window holds the last ten samples.
C30_Witness ==
    /\ Len(delivered) = 13
    /\ disp.lastFrameCount = 13
    /\ disp.frameRates = <<1, 2, 1, 1, 1, 1, 1, 1, 1, 1>>


\* n / d rounded to the nearest integer (halves up), for n >= 0 and d > 0.
Round(n, d) == (2 * n + d) \div (2 * d)

\* C31: in known-total mode the number of filled bar glyphs is
\* round(barWidth * percentage / 100) clamped to [0, barWidth], and the filled
\* and unfilled counts sum to barWidth.
C31_FilledIsRounded ==
    frame.mode = "block" =>
        LET barWidth == termWidth - BarMargin
            raw == Round(frame.percentage[1] * barWidth, frame.percentage[2] * 100)
            want == IF raw < 0 THEN 0 ELSE IF raw > barWidth THEN barWidth ELSE raw
        IN /\ frame.filled = want
           /\ frame.filled + frame.unfilled = barWidth


\* C32: for every terminal width the progress-bar line of a known-total
\* redraw is at most as long as the terminal is wide, so it does not wrap.
C32_BarLineFits ==
    frame.mode = "block" => frame.lineLen <= termWidth

\* C33: in known-total mode the remaining time shown is
\* (total - position) / rate whenever the rate is > 0, and is reported as
\* unknown, not as a duration, whenever the rate is not > 0.
C33_RemainingTime ==
    [][(frame' # frame /\ frame'.mode = "block") =>
          IF progress.ProcessingRate > 0
          THEN /\ frame'.remainingText = "duration"
               /\ frame'.remaining =
                     Mean(progress.TotalDuration - progress.CurrentTime,
                          progress.ProcessingRate)
          ELSE frame'.remainingText = "unknown"]_vars

\* C38: a known-total redraw takes the cursor down exactly 4 rows and then up
\* exactly 4, and an unknown-total redraw stays on its row, so every tick
\* starts on the row the cursor was left on after the initial frame.
C38_CursorRowKept ==
    /\ frame.mode = "block" => (frame.rows = BlockLines /\ frame.up = BlockLines)
    /\ frame.mode = "single" => (frame.rows = 0 /\ frame.up = 0)


\* C34: on every path on which convertVideo returns after it started the
\* progress pipeline, the progress channel has been closed (so that the
\* renderer, scheduled fairly, terminates).
C34_ChannelClosedOnReturn ==
    (ret # "none" /\ dpPc # "notstarted") => chanClosed

\* C35: the renderer writes nothing to the terminal after convertVideo has
\* begun printing the summary or has returned its error: no tick draws then.
C35_NoDrawAfterSummary ==
    [][~(DisplayTick /\ (summary.started \/ ret = "err"))]_vars


\* C36: ProgressState's total duration never returns to 0 once it has been
\* non-zero, whatever updates were sent, dropped and delivered, and once the
\* renderer has drawn a known-total frame every later tick draws one too.
C36_TotalStaysKnown ==
    [][/\ progress.TotalDuration # 0 => progress'.TotalDuration # 0
       /\ frame.mode = "block" => frame'.mode = "block"]_vars

\* Eleven updates were sent, the last was dropped on the full channel, the
\* ten others were applied, and the tick after them drew the block.
C36_Witness ==
    /\ Len(produced) = 11 /\ Len(delivered) = 10 /\ progressChan = <<>>
    /\ frame.mode = "block"
    /\ frame = TickFrame(progress, termWidth)


\* C37: applying an update and drawing a frame never interleave.  ProgressState
\* changes only by the renderer task's receive, which applies the whole update
\* and draws nothing; a frame is drawn only by a tick of the same task, which
\* changes nothing of ProgressState and computes the frame from the state that
\* the updates received so far, each applied completely, have left.
C37_ApplyAndDrawAtomic ==
    [][/\ (progress' # progress \/ disp' # disp) =>
             /\ progressChan # <<>>
             /\ delivered' = Append(delivered, Head(progressChan))
             /\ progress' = ApplyProgress(progress, disp, Head(progressChan).u)
             /\ disp' = ApplyDisp(progress, disp, Head(progressChan).u)
             /\ frame' = frame
       /\ (frame' # frame /\ frame'.mode \in {"single", "block"}) =>
             /\ progress' = progress /\ disp' = disp /\ delivered' = delivered
             /\ frame' = TickFrame(progress, termWidth)]_vars

\* A block was drawn from the state two applied updates left while further
\* updates were waiting in the channel.
C37_Witness ==
    /\ frame.mode = "block"
    /\ frame = TickFrame(progress, termWidth)
    /\ Len(delivered) >= 2
    /\ progressChan # <<>>
    /\ Head(progressChan).u.CurrentTime # progress.CurrentTime


\* C39: when the pre-flight GetPath call succeeded and the binary it resolved
\* is still there, the conversion's GetPath call on the same Manager (no
\* Cleanup in between), if it succeeds, returns the same path, extracts
\* nothing and creates no temporary directory.
C39_SecondGetPathCached ==
    [][(/\ mainPc = "getpath" /\ mainPc' = "args"
        /\ lastCall.op = "GetPath" /\ ~lastCall.err
        /\ Exists(lastCall.path)) =>
          /\ lastCall'.op = "GetPath" /\ ~lastCall'.err
          /\ lastCall'.path = lastCall.path
          /\ dirCount' = dirCount
          /\ tempDirs' = tempDirs
          /\ binaries' = binaries
          /\ manager' = manager]_vars

\* Both calls succeeded on an extracted binary and one temporary directory
\* was ever made.
C39_Witness ==
    /\ mainPc = "args"
    /\ lastCall.op = "GetPath" /\ ~lastCall.err
    /\ lastCall.path = TempPath(1)
    /\ dirCount = 1 /\ tempDirs = {1} /\ binaries = {1}

====
